---------------------------- MODULE Spec2Model ----------------------------
(***************************************************************************)
(* Kurasuta FrontendApi (frontend-api.py): a Flask service over a          *)
(* PostgreSQL store of sample metadata.  Each request runs in its own      *)
(* application context `g`; the store is written concurrently by the       *)
(* ingestion pipeline.  Strings are sequences of one-character strings.    *)
(***************************************************************************)
EXTENDS Integers, Sequences, FiniteSets, TLC

VARIABLES
    sample,       \* table sample: set of rows
    task,         \* table task: set of rows
    api_key,      \* table api_key: set of registered keys
    connections,  \* the open store connections (ids)
    pc,           \* per worker: position in the request cycle
    request,      \* per worker: the request being handled
    g,            \* per worker: flask.g of the request's application context
    local,        \* per worker: local variables of the running view function
    response,     \* per worker: the response (status 0: none yet)
    trace,        \* per worker: store statements executed by this request
    opened,       \* per worker: number of connect_db calls of this request
    changed,      \* per worker: the sample table was written since the request arrived
    lastDraw      \* last completed by-year draw on the current sample table

vars == <<sample, task, api_key, connections, pc, request, g, local, response,
          trace, opened, changed, lastDraw>>

Workers == DOMAIN pc

(***************************** bounds *************************************)
MaxSamples == 3
MaxHashLen == 65
BaseYear == 2020
OverCeiling == 2
NumWorkers == 2

(************************* program constants ******************************)
MinYear == 1970
MaxYear == 3000
Ceiling == 50
LenSha256 == 64
LenMd5 == 32
LenSha1 == 40
NewestLimit == 10

(***************************** strings ************************************)
Rep(c, n) == [i \in 1..n |-> c]

DigitChars == <<"0", "1", "2", "3", "4", "5", "6", "7", "8", "9">>

\* string.hexdigits
hexdigits ==
    {"0", "1", "2", "3", "4", "5", "6", "7", "8", "9",
     "a", "b", "c", "d", "e", "f", "A", "B", "C", "D", "E", "F"}

IsDigit(c) == \E i \in 1..10 : DigitChars[i] = c

DigitVal(c) == (CHOOSE i \in 1..10 : DigitChars[i] = c) - 1

RECURSIVE DigitsVal(_)
DigitsVal(s) ==
    IF s = <<>> THEN 0
    ELSE 10 * DigitsVal(SubSeq(s, 1, Len(s) - 1)) + DigitVal(s[Len(s)])

RECURSIVE Strip(_)
Strip(s) ==
    IF s = <<>> THEN s
    ELSE IF s[1] = " " THEN Strip(Tail(s))
    ELSE IF s[Len(s)] = " " THEN Strip(SubSeq(s, 1, Len(s) - 1))
    ELSE s

\* int(str): surrounding blanks, an optional sign, then decimal digits;
\* anything else raises ValueError (ok = FALSE).  The texts considered are
\* over digits, signs, blanks, "." and letters (no "_" digit separators).
int(s) ==
    LET t == Strip(s)
        signed == t # <<>> /\ t[1] \in {"+", "-"}
        body == IF signed THEN Tail(t) ELSE t
        good == body # <<>> /\ \A i \in 1..Len(body) : IsDigit(body[i])
    IN  IF ~good THEN [ok |-> FALSE, value |-> 0]
        ELSE [ok |-> TRUE,
              value |-> IF signed /\ t[1] = "-" THEN 0 - DigitsVal(body)
                        ELSE DigitsVal(body)]

\* The decimal text a client writes for an integer.
RECURSIVE NatStr(_)
NatStr(n) ==
    IF n < 10 THEN <<DigitChars[n + 1]>>
    ELSE Append(NatStr(n \div 10), DigitChars[(n % 10) + 1])

ToStr(n) == IF n < 0 THEN <<"-">> \o NatStr(0 - n) ELSE NatStr(n)

(************************** the store **************************************)
\* A timestamp is <<year, month, day, hour, minute, second>>; NULL is <<>>.
NULL == <<>>

TsLt(a, b) ==
    \E i \in 1..6 : a[i] < b[i] /\ \A j \in 1..(i - 1) : a[j] = b[j]

TsLeq(a, b) == a = b \/ TsLt(a, b)

YearStart(y) == <<y, 1, 1, 0, 0, 0>>
YearEnd(y) == <<y, 12, 31, 23, 59, 59>>

\* Hash columns of the row with identifier i: one repeated lower-case hex
\* digit, so that hashes are unique per row and per column length.
HashChars == <<"f", "a", "b", "c", "d", "e", "0", "1", "2", "3">>

Column(row, column) ==
    CASE column = "hash_sha256" -> Rep(HashChars[row.id], LenSha256)
      [] column = "hash_md5" -> Rep(HashChars[row.id], LenMd5)
      [] column = "hash_sha1" -> Rep(HashChars[row.id], LenSha1)
      [] column = "section_hash" -> Rep(DigitChars[(row.id % 2) + 1], LenSha256)
      [] column = "build_timestamp" -> row.build_timestamp
      [] column = "id" -> row.id

Row(i, ts) == [id |-> i, build_timestamp |-> ts]

NoRow == Row(0, NULL)

\* WHERE ('lo' <= build_timestamp) AND (build_timestamp < 'hi'); a NULL
\* timestamp satisfies no comparison.
Compare(a, op, b) == IF op = "<=" THEN TsLeq(a, b) ELSE TsLt(a, b)

InRange(row, stmt) ==
    /\ row.build_timestamp # NULL
    /\ Compare(stmt.lo, stmt.lo_op, row.build_timestamp)
    /\ Compare(row.build_timestamp, stmt.hi_op, stmt.hi)

Matching(table, stmt) == {r \in table : InRange(r, stmt)}

\* SELECT COUNT( * ) FROM sample WHERE ...
SelectCount(table, stmt) == Cardinality(Matching(table, stmt))

\* SELECT hash_sha256 FROM sample WHERE ... LIMIT 1 OFFSET k, with no
\* ORDER BY: the store may scan the matching rows in any order, so the row
\* at offset k is any matching row when k rows precede it, and no row at all
\* when k is at or beyond the number of matching rows.  The result is the
\* set of row sets fetchall() may return.
SelectOffset(table, stmt) ==
    IF stmt.offset >= 0 /\ stmt.offset < Cardinality(Matching(table, stmt))
    THEN {{r} : r \in Matching(table, stmt)}
    ELSE {{}}

\* SampleRepository.by_hash_sha256 / by_hash_md5 / by_hash_sha1: exact match
\* on the hash column; the sample or None (NoRow).
by_hash(table, column, hash) ==
    IF \E r \in table : Column(r, column) = hash
    THEN CHOOSE r \in table : Column(r, column) = hash
    ELSE NoRow

\* SampleRepository.by_section_hash
by_section_hash(table, hash) == {r \in table : Column(r, "section_hash") = hash}

\* SampleRepository.ids_by_hashes: the identifiers of the rows one of whose
\* hash columns equals a listed hash; unmatched lines are dropped.
ids_by_hashes(table, hashes) ==
    {r.id : r \in {x \in table : \E i \in 1..Len(hashes) :
                       \E c \in {"hash_sha256", "hash_md5", "hash_sha1"} :
                           Column(x, c) = hashes[i]}}

\* SampleRepository.by_ids
by_ids(table, ids) == {r \in table : r.id \in ids}

\* SampleRepository.newest(limit): the row sequences possible for
\* ORDER BY build_timestamp DESC LIMIT limit (ties and NULLs in any place).
Descending(s) ==
    \A i \in 1..Len(s), j \in 1..Len(s) :
        (i < j /\ s[i].build_timestamp # NULL /\ s[j].build_timestamp # NULL)
            => TsLeq(s[j].build_timestamp, s[i].build_timestamp)

Orderings(table) ==
    {s \in [1..Cardinality(table) -> table] :
        /\ \A i \in 1..Len(s), j \in 1..Len(s) : i # j => s[i] # s[j]
        /\ Descending(s)}

newest(table, limit) ==
    {SubSeq(s, 1, IF Len(s) < limit THEN Len(s) ELSE limit) : s \in Orderings(table)}

\* SampleRepository.random_by_id(count): the sets of distinct rows a draw of
\* count rows (with replacement) may consist of.
random_by_id(table, count) ==
    {S \in SUBSET table :
        /\ Cardinality(S) <= count
        /\ (S = {}) <=> (table = {})}

\* ApiKeyRepository.exists
exists(table, key) == key \in table

\* JsonFactory().from_sample: the field set of the encoded sample.
from_sample(row) ==
    [hash_sha256 |-> Column(row, "hash_sha256"),
     hash_md5 |-> Column(row, "hash_md5"),
     hash_sha1 |-> Column(row, "hash_sha1"),
     build_timestamp |-> row.build_timestamp,
     section_hash |-> Column(row, "section_hash")]

(********************** application context *******************************)
NoAttr == 0   \* hasattr(g, ...) is false

EmptyG == [db |-> NoAttr, sample_repository |-> NoAttr, api_key_repository |-> NoAttr]

\* psycopg2.connect: a connection distinct from every open one.
connect_db(conns) ==
    CHOOSE c \in 1..(Cardinality(conns) + 1) :
        c \notin conns /\ \A d \in 1..(c - 1) : d \in conns

\* The part of the state a view function threads through its calls.
Env(w) == [g |-> g[w], connections |-> connections,
           opened |-> opened[w], trace |-> trace[w]]

get_db(e) ==
    IF e.g.db = NoAttr
    THEN LET c == connect_db(e.connections)
         IN  [e EXCEPT !.g.db = c, !.connections = @ \cup {c}, !.opened = @ + 1]
    ELSE e

get_sample_repository(e) ==
    IF e.g.sample_repository = NoAttr
    THEN LET e1 == get_db(e)
         IN  [e1 EXCEPT !.g.sample_repository = e1.g.db]
    ELSE e

get_api_key_repository(e) ==
    IF e.g.api_key_repository = NoAttr
    THEN LET e1 == get_db(e)
         IN  [e1 EXCEPT !.g.api_key_repository = e1.g.db]
    ELSE e

\* One statement executed on connection conn.
execute(e, conn, stmt) ==
    [e EXCEPT !.trace = Append(@, [conn |-> conn, stmt |-> stmt])]

\* A repository call: the repository handle in g is the connection it was
\* constructed with.
SampleQuery(e, stmt) ==
    LET e1 == get_sample_repository(e)
    IN  execute(e1, e1.g.sample_repository, stmt)

ApiKeyQuery(e, stmt) ==
    LET e1 == get_api_key_repository(e)
    IN  execute(e1, e1.g.api_key_repository, stmt)

CursorQuery(e, stmt) ==
    LET e1 == get_db(e)
    IN  execute(e1, e1.g.db, stmt)

(***************************** responses **********************************)
NoResponse == [status |-> 0, reason |-> "", json |-> <<>>]

\* jsonify(...), status 200
Ok(json) == [status |-> 200, reason |-> "", json |-> json]

\* raise InvalidUsage(message[, status_code=400]), rendered by handle_invalid_usage
InvalidUsage(message) == [status |-> 400, reason |-> message, json |-> <<>>]

\* raise NotFound()
NotFound == [status |-> 404, reason |-> "Not Found", json |-> <<>>]

\* an exception no handler catches
ServerError(exception) == [status |-> 500, reason |-> exception, json |-> <<>>]

NoLocal == [year |-> 0, count |-> 0, rand |-> 0, random_sha256 |-> <<>>]

NoDraw == [offset |-> 0 - 1, id |-> 0]

\* The view function returned or raised: the state it leaves behind.
Finish(w, e, resp) ==
    /\ g' = [g EXCEPT ![w] = e.g]
    /\ connections' = e.connections
    /\ opened' = [opened EXCEPT ![w] = e.opened]
    /\ trace' = [trace EXCEPT ![w] = e.trace]
    /\ response' = [response EXCEPT ![w] = resp]
    /\ pc' = [pc EXCEPT ![w] = "teardown"]

(************************ request cycle ***********************************)
NoRequest == [route |-> "", arg |-> <<>>, api_key |-> <<>>, files |-> <<>>,
              isint |-> FALSE, n |-> 0]

\* A client's request: header X-ApiKey is <<>> when absent and <<key>> when
\* sent; files is <<>> without a field "hashes" and <<lines>> with one.
\* isint and n record the integer the client meant by arg, if any.
Req(route, arg, key, files, isint, n) ==
    [route |-> route, arg |-> arg, api_key |-> key, files |-> files,
     isint |-> isint, n |-> n]

Receive(w, requests) ==
    /\ pc[w] = "idle"
    /\ \E r \in requests : request' = [request EXCEPT ![w] = r]
    /\ pc' = [pc EXCEPT ![w] = "dispatch"]
    /\ changed' = [changed EXCEPT ![w] = FALSE]
    /\ UNCHANGED <<sample, task, api_key, connections, g, local, response,
                   trace, opened, lastDraw>>

\* close_db without the close: the connection stays open.
close_db_Leak(ctx, conns) == conns

\* close_db, then the application context (and its g) is dropped.
close_db(ctx, conns) == IF ctx.db # NoAttr THEN conns \ {ctx.db} ELSE conns

Teardown(w) ==
    /\ pc[w] = "teardown"
    /\ connections' = close_db(g[w], connections)
    /\ g' = [g EXCEPT ![w] = EmptyG]
    /\ pc' = [pc EXCEPT ![w] = "idle"]
    /\ request' = [request EXCEPT ![w] = NoRequest]
    /\ local' = [local EXCEPT ![w] = NoLocal]
    /\ response' = [response EXCEPT ![w] = NoResponse]
    /\ trace' = [trace EXCEPT ![w] = <<>>]
    /\ opened' = [opened EXCEPT ![w] = 0]
    /\ changed' = [changed EXCEPT ![w] = FALSE]
    /\ UNCHANGED <<sample, task, api_key, lastDraw>>

(**************************** the writer **********************************)
\* The ingestion pipeline writes the sample table while requests run.
WriterInsert(timestamps) ==
    /\ \E i \in 1..MaxSamples, ts \in timestamps :
          /\ \A r \in sample : r.id # i
          /\ sample' = sample \cup {Row(i, ts)}
    /\ changed' = [w \in Workers |-> pc[w] # "idle"]
    /\ lastDraw' = NoDraw
    /\ UNCHANGED <<task, api_key, connections, pc, request, g, local,
                   response, trace, opened>>

WriterDelete ==
    /\ \E r \in sample : sample' = sample \ {r}
    /\ changed' = [w \in Workers |-> pc[w] # "idle"]
    /\ lastDraw' = NoDraw
    /\ UNCHANGED <<task, api_key, connections, pc, request, g, local,
                   response, trace, opened>>

(***************************** get_sample *********************************)
\* get_sample with the length test before the character test.
HashRejection_LengthFirst(hash) ==
    IF hash = <<>> THEN "Hash empty"
    ELSE IF Len(hash) \notin {LenSha256, LenMd5, LenSha1}
    THEN "Hash is not of any of the following lengths: 64, 32, 40"
    ELSE IF ~(\A i \in 1..Len(hash) : hash[i] \in hexdigits)
    THEN "Hash may only contain hex chars"
    ELSE ""

\* Lines 68-71 and 78-79: the reason the hash is rejected with, "" if none.
HashRejection(hash) ==
    IF hash = <<>> THEN "Hash empty"
    ELSE IF ~(\A i \in 1..Len(hash) : hash[i] \in hexdigits)
    THEN "Hash may only contain hex chars"
    ELSE IF Len(hash) \notin {LenSha256, LenMd5, LenSha1}
    THEN "Hash is not of any of the following lengths: 64, 32, 40"
    ELSE ""

\* get_sample with the MD5 and SHA-1 lookups exchanged.
HashColumn_Swapped(hash) ==
    IF Len(hash) = LenSha256 THEN "hash_sha256"
    ELSE IF Len(hash) = LenMd5 THEN "hash_sha1"
    ELSE "hash_md5"

\* Lines 72-77: the column looked up for a hash of a supported length.
HashColumn(hash) ==
    IF Len(hash) = LenSha256 THEN "hash_sha256"
    ELSE IF Len(hash) = LenMd5 THEN "hash_md5"
    ELSE "hash_sha1"

get_sample(w) ==
    /\ pc[w] = "dispatch"
    /\ request[w].route = "get_sample"
    /\ LET hash == request[w].arg
           e == Env(w)
       IN  IF HashRejection(hash) # ""
           THEN Finish(w, e, InvalidUsage(HashRejection(hash)))
           ELSE LET stmt == [op |-> "by_hash", column |-> HashColumn(hash),
                             value |-> hash]
                    e1 == SampleQuery(e, stmt)
                    found == by_hash(sample, stmt.column, stmt.value)
                IN  IF found = NoRow
                    THEN Finish(w, e1, NotFound)
                    ELSE Finish(w, e1, Ok(from_sample(found)))
    /\ UNCHANGED <<sample, task, api_key, request, local, changed, lastDraw>>

\* Arguments of get_sample (the empty one only by a direct call: the route
\* matches no empty segment): a run of one character, optionally with one
\* other character at the front or at the end.
HashFill == {"f", "F"}
HashOdd == {"g", "A"}

HashInputs ==
    {Rep(c, n) : c \in HashFill, n \in 0..MaxHashLen}
    \cup {<<o>> \o Rep(c, n) : o \in HashOdd, c \in HashFill, n \in 0..(MaxHashLen - 1)}
    \cup {Rep(c, n) \o <<o>> : o \in HashOdd, c \in HashFill, n \in 1..(MaxHashLen - 1)}

SampleRequests == {Req("get_sample", h, <<>>, <<>>, FALSE, 0) : h \in HashInputs}

(************************ random_sample_by_year ***************************)
\* '%i-01-01 00:00:00' % year, read by the store as a timestamp.
YearBound(year) == YearStart(year)

\* Lines 153-157: the count statement.
CountStmt(year) ==
    [op |-> "count_in_range",
     lo |-> YearBound(year), lo_op |-> "<=",
     hi |-> YearBound(year + 1), hi_op |-> "<"]

\* The offset statement with the upper bound of the wrong year.
OffsetStmt_SameYear(year, rand) ==
    [op |-> "offset_in_range",
     lo |-> YearBound(year), lo_op |-> "<=",
     hi |-> YearBound(year), hi_op |-> "<",
     offset |-> rand]

\* Lines 160-166: the offset statement.
OffsetStmt(year, rand) ==
    [op |-> "offset_in_range",
     lo |-> YearBound(year), lo_op |-> "<=",
     hi |-> YearBound(year + 1), hi_op |-> "<",
     offset |-> rand]

\* Lines 144-151: the reason the year is rejected with, "" if none.
YearRejection(arg) ==
    IF ~int(arg).ok THEN "Given year is not an integer"
    ELSE IF int(arg).value < MinYear THEN "Given year should be above 1970"
    ELSE IF int(arg).value > MaxYear THEN "Given year should be below 3000"
    ELSE ""

\* random.randint(a, b): the values it may return; empty when a > b, where
\* it raises ValueError.
randint(a, b) == a..b

\* The draw with the count itself as the upper end.
DrawOffset_Inclusive(count) == randint(0, count)

\* Line 159
DrawOffset(count) == randint(0, count - 1)

\* Validation, then the count statement (lines 144-158).
random_sample_by_year(w) ==
    /\ pc[w] = "dispatch"
    /\ request[w].route = "random_sample_by_year"
    /\ LET arg == request[w].arg
           e == Env(w)
       IN  IF YearRejection(arg) # ""
           THEN /\ Finish(w, e, InvalidUsage(YearRejection(arg)))
                /\ UNCHANGED local
           ELSE LET year == int(arg).value
                    e1 == CursorQuery(e, CountStmt(year))
                IN  /\ g' = [g EXCEPT ![w] = e1.g]
                    /\ connections' = e1.connections
                    /\ opened' = [opened EXCEPT ![w] = e1.opened]
                    /\ trace' = [trace EXCEPT ![w] = e1.trace]
                    /\ local' = [local EXCEPT ![w].year = year,
                                     ![w].count = SelectCount(sample, CountStmt(year))]
                    /\ pc' = [pc EXCEPT ![w] = "by_year_offset"]
                    /\ UNCHANGED response
    /\ UNCHANGED <<sample, task, api_key, request, changed, lastDraw>>

\* The draw and the offset statement (lines 159-167).
by_year_offset(w) ==
    /\ pc[w] = "by_year_offset"
    /\ LET e == Env(w)
           year == local[w].year
       IN  IF DrawOffset(local[w].count) = {}
           THEN /\ Finish(w, e, ServerError("ValueError"))
                /\ UNCHANGED local
           ELSE \E rand \in DrawOffset(local[w].count) :
                  LET stmt == OffsetStmt(year, rand)
                      e1 == execute(e, e.g.db, stmt)
                  IN  \E rows \in SelectOffset(sample, stmt) :
                        IF rows = {}
                        THEN /\ Finish(w, e1, ServerError("IndexError"))
                             /\ local' = [local EXCEPT ![w].rand = rand]
                        ELSE /\ trace' = [trace EXCEPT ![w] = e1.trace]
                             /\ local' = [local EXCEPT ![w].rand = rand,
                                    ![w].random_sha256 =
                                        Column(CHOOSE r \in rows : TRUE, "hash_sha256")]
                             /\ pc' = [pc EXCEPT ![w] = "by_year_sample"]
                             /\ UNCHANGED <<g, connections, opened, response>>
    /\ UNCHANGED <<sample, task, api_key, request, changed, lastDraw>>

\* by_hash_sha256 of the selected hash and the response (line 168).  What
\* from_sample does with None is not fixed by the repository: it raises or
\* encodes nothing.
by_year_sample(w) ==
    /\ pc[w] = "by_year_sample"
    /\ LET stmt == [op |-> "by_hash", column |-> "hash_sha256",
                    value |-> local[w].random_sha256]
           e1 == SampleQuery(Env(w), stmt)
           found == by_hash(sample, stmt.column, stmt.value)
       IN  IF found = NoRow
           THEN /\ \/ Finish(w, e1, ServerError("AttributeError"))
                   \/ Finish(w, e1, Ok(<<>>))
                /\ UNCHANGED lastDraw
           ELSE /\ Finish(w, e1, Ok(from_sample(found)))
                /\ lastDraw' = IF changed[w] THEN lastDraw
                               ELSE [offset |-> local[w].rand, id |-> found.id]
    /\ UNCHANGED <<sample, task, api_key, request, local, changed>>

YearInputs == {MinYear - 1, MinYear, BaseYear, BaseYear + 1, MaxYear, MaxYear + 1}

YearRequests ==
    {Req("random_sample_by_year", ToStr(y), <<>>, <<>>, TRUE, y) : y \in YearInputs}
    \cup {Req("random_sample_by_year", <<"+">> \o ToStr(BaseYear) \o <<" ">>,
              <<>>, <<>>, TRUE, BaseYear)}
    \cup {Req("random_sample_by_year", s, <<>>, <<>>, FALSE, 0) :
            s \in {<<"2", "0", "x", "0">>, ToStr(BaseYear) \o <<".", "5">>, <<"-">>}}

YearTimestamps ==
    {YearStart(BaseYear), YearEnd(BaseYear), YearStart(BaseYear + 1), NULL}

(***************************** API keys ***********************************)
\* lib.flask.validate_api_key: the format check of a key; "" when it passes.
WellFormedKeys == {"key-A", "key-B"}

validate_api_key(key) ==
    IF key \in WellFormedKeys THEN "" ELSE "API key is malformed"

\* request.headers.get('X-ApiKey') followed by `not api_key`: absent or "".
KeyMissing(header) == header = <<>> \/ header[1] = ""

\* The ceiling test off by one.
OverCeilingCount_OffByOne(count) == count > Ceiling + 1

\* Line 179
OverCeilingCount(count) == count > Ceiling

(*************************** random_samples *******************************)
\* Lines 173-178: the reason the count is rejected with, "" if none.
CountRejection(arg) ==
    IF ~int(arg).ok THEN "Given count is not an integer"
    ELSE IF int(arg).value <= 0 THEN "Given count should be above 0"
    ELSE ""

random_samples(w) ==
    /\ pc[w] = "dispatch"
    /\ request[w].route = "random_samples"
    /\ LET arg == request[w].arg
           header == request[w].api_key
           e == Env(w)
           count == int(arg).value
           draw(e0) ==
               LET e1 == SampleQuery(e0, [op |-> "random_by_id", count |-> count])
               IN  \E S \in random_by_id(sample, count) :
                       Finish(w, e1, Ok({from_sample(r) : r \in S}))
       IN  IF CountRejection(arg) # ""
           THEN Finish(w, e, InvalidUsage(CountRejection(arg)))
           ELSE IF ~OverCeilingCount(count)
           THEN draw(e)
           ELSE IF KeyMissing(header)
           THEN Finish(w, e, InvalidUsage(
                    "Given count should be below 50 or you have to pass an API key"))
           ELSE IF validate_api_key(header[1]) # ""
           THEN Finish(w, e, InvalidUsage(validate_api_key(header[1])))
           ELSE LET e1 == ApiKeyQuery(e, [op |-> "exists", key |-> header[1]])
                IN  IF ~exists(api_key, header[1])
                    THEN Finish(w, e1, InvalidUsage("API key does not exist"))
                    ELSE draw(e1)
    /\ UNCHANGED <<sample, task, api_key, request, local, changed, lastDraw>>

(******************************** bulk ************************************)
\* Lines 200-206: the reason the bulk request is rejected with, "" if none.
BulkRejection(header, files) ==
    IF KeyMissing(header) THEN "API key required for this action"
    ELSE IF validate_api_key(header[1]) # "" THEN validate_api_key(header[1])
    ELSE IF files = <<>> THEN "Field \"hashes\" does not exist"
    ELSE ""

bulk(w) ==
    /\ pc[w] = "dispatch"
    /\ request[w].route = "bulk"
    /\ LET header == request[w].api_key
           files == request[w].files
           e == Env(w)
       IN  IF BulkRejection(header, files) # ""
           THEN Finish(w, e, InvalidUsage(BulkRejection(header, files)))
           ELSE LET ids == ids_by_hashes(sample, files[1])
                    e1 == SampleQuery(e, [op |-> "ids_by_hashes", hashes |-> files[1]])
                    e2 == SampleQuery(e1, [op |-> "by_ids", ids |-> ids])
                IN  Finish(w, e2, Ok({from_sample(r) : r \in by_ids(sample, ids)}))
    /\ UNCHANGED <<sample, task, api_key, request, local, changed, lastDraw>>

(************************ the other view functions ************************)
newest_samples(w) ==
    /\ pc[w] = "dispatch"
    /\ request[w].route = "newest_samples"
    /\ LET e1 == SampleQuery(Env(w), [op |-> "newest", limit |-> NewestLimit])
       IN  \E rows \in newest(sample, NewestLimit) :
               Finish(w, e1, Ok([i \in 1..Len(rows) |-> from_sample(rows[i])]))
    /\ UNCHANGED <<sample, task, api_key, request, local, changed, lastDraw>>

\* SELECT COUNT(id) FROM sample
stats_count(w) ==
    /\ pc[w] = "dispatch"
    /\ request[w].route = "stats_count"
    /\ LET e1 == CursorQuery(Env(w), [op |-> "count_id"])
       IN  Finish(w, e1, Ok([count |-> Cardinality(sample)]))
    /\ UNCHANGED <<sample, task, api_key, request, local, changed, lastDraw>>

\* SELECT EXTRACT(YEAR FROM build_timestamp), COUNT( * ) ... GROUP BY 1; the
\* group of the NULL timestamps has a NULL year, and int(None) raises.
build_time_stamps_by_year(w) ==
    /\ pc[w] = "dispatch"
    /\ request[w].route = "build_time_stamps_by_year"
    /\ LET e1 == CursorQuery(Env(w), [op |-> "count_by_year"])
           years == {r.build_timestamp[1] : r \in {x \in sample : x.build_timestamp # NULL}}
           ret == [y \in years |->
                      Cardinality({r \in sample : r.build_timestamp # NULL
                                                  /\ r.build_timestamp[1] = y})]
       IN  IF \E r \in sample : r.build_timestamp = NULL
           THEN Finish(w, e1, ServerError("TypeError"))
           ELSE Finish(w, e1, Ok(ret))
    /\ UNCHANGED <<sample, task, api_key, request, local, changed, lastDraw>>

\* Completed PEMetadata tasks counted per year and month of completion.
processings_per_month(w) ==
    /\ pc[w] = "dispatch"
    /\ request[w].route = "processings_per_month"
    /\ LET e1 == CursorQuery(Env(w), [op |-> "count_tasks_by_month"])
           done == {t \in task : t.type = "PEMetadata" /\ t.completed_at # NULL}
           years == {t.completed_at[1] : t \in done}
           months(y) == {t.completed_at[2] : t \in {x \in done : x.completed_at[1] = y}}
           ret == [y \in years |-> [m \in months(y) |->
                      Cardinality({t \in done : /\ t.completed_at[1] = y
                                                /\ t.completed_at[2] = m})]]
       IN  Finish(w, e1, Ok(ret))
    /\ UNCHANGED <<sample, task, api_key, request, local, changed, lastDraw>>

\* SELECT COUNT( * ) FROM sample
stats_count_sample(w) ==
    /\ pc[w] = "dispatch"
    /\ request[w].route = "stats_count_sample"
    /\ LET e1 == CursorQuery(Env(w), [op |-> "count_all"])
       IN  Finish(w, e1, Ok([sample |-> Cardinality(sample)]))
    /\ UNCHANGED <<sample, task, api_key, request, local, changed, lastDraw>>

\* lib.flask.validate_sha256: the Hash Validator's rules for SHA-256.
validate_sha256(sha256) ==
    IF sha256 = <<>> THEN "Hash empty"
    ELSE IF ~(\A i \in 1..Len(sha256) : sha256[i] \in hexdigits)
    THEN "Hash may only contain hex chars"
    ELSE IF Len(sha256) # LenSha256 THEN "Hash is not of length 64"
    ELSE ""

get_samples_by_section(w) ==
    /\ pc[w] = "dispatch"
    /\ request[w].route = "get_samples_by_section"
    /\ LET sha256 == request[w].arg
           e == Env(w)
       IN  IF validate_sha256(sha256) # ""
           THEN Finish(w, e, InvalidUsage(validate_sha256(sha256)))
           ELSE LET e1 == SampleQuery(e, [op |-> "by_section_hash", value |-> sha256])
                IN  Finish(w, e1, Ok({from_sample(r) : r \in by_section_hash(sample, sha256)}))
    /\ UNCHANGED <<sample, task, api_key, request, local, changed, lastDraw>>

(****************************** requests **********************************)
KeyHeaders == {<<>>, <<"">>, <<"not a key">>, <<"key-A">>, <<"key-B">>}

CountInputs == (0 - 1)..(Ceiling + OverCeiling)

CountRequests ==
    {Req("random_samples", ToStr(n), k, <<>>, TRUE, n) : n \in CountInputs, k \in KeyHeaders}
    \cup {Req("random_samples", <<" ", "+">> \o ToStr(Ceiling + 1), k, <<>>,
              TRUE, Ceiling + 1) : k \in KeyHeaders}
    \cup {Req("random_samples", s, k, <<>>, FALSE, 0) :
            s \in {<<"5", "x">>, ToStr(Ceiling + 1) \o <<".", "0">>, <<"+">>},
            k \in KeyHeaders}

HashFiles ==
    {<<>>,
     << <<>> >>,
     << <<Rep("f", LenSha256)>> >>,
     << <<Rep("a", LenMd5), <<"z">>, Rep("F", LenSha1), Rep("f", LenSha1)>> >>}

BulkRequests == {Req("bulk", <<>>, k, f, FALSE, 0) : k \in KeyHeaders, f \in HashFiles}

(*************************** specifications *******************************)
InitWith(workers, table, keys, tasks) ==
    /\ sample = table
    /\ task = tasks
    /\ api_key = keys
    /\ connections = {}
    /\ pc = [w \in workers |-> "idle"]
    /\ request = [w \in workers |-> NoRequest]
    /\ g = [w \in workers |-> EmptyG]
    /\ local = [w \in workers |-> NoLocal]
    /\ response = [w \in workers |-> NoResponse]
    /\ trace = [w \in workers |-> <<>>]
    /\ opened = [w \in workers |-> 0]
    /\ changed = [w \in workers |-> FALSE]
    /\ lastDraw = NoDraw

\* /sample/<hash> served by one worker while the pipeline writes.
InitSample == InitWith({1}, {Row(1, YearStart(BaseYear))}, {}, {})

NextSample ==
    \/ \E w \in Workers : Receive(w, SampleRequests)
    \/ \E w \in Workers : get_sample(w)
    \/ \E w \in Workers : Teardown(w)
    \/ WriterInsert({YearStart(BaseYear)})
    \/ WriterDelete

SpecSample == InitSample /\ [][NextSample]_vars

\* /random_sample/by_year/<year> served by one worker while the pipeline writes.
InitYear == InitWith({1}, {Row(1, YearStart(BaseYear))}, {}, {})

NextYear ==
    \/ \E w \in Workers : Receive(w, YearRequests)
    \/ \E w \in Workers : random_sample_by_year(w)
    \/ \E w \in Workers : by_year_offset(w)
    \/ \E w \in Workers : by_year_sample(w)
    \/ \E w \in Workers : Teardown(w)
    \/ WriterInsert(YearTimestamps)
    \/ WriterDelete

SpecYear == InitYear /\ [][NextYear]_vars

\* /random_sample/<count> and /bulk/sample served by one worker.
InitGate ==
    \E table \in {{}, {Row(1, YearStart(BaseYear)), Row(2, NULL)}},
       keys \in SUBSET {"key-A", "not a key"} :
        InitWith({1}, table, keys, {})

NextGate ==
    \/ \E w \in Workers : Receive(w, CountRequests \cup BulkRequests)
    \/ \E w \in Workers : random_samples(w)
    \/ \E w \in Workers : bulk(w)
    \/ \E w \in Workers : Teardown(w)

SpecGate == InitGate /\ [][NextGate]_vars

\* Every route, served by concurrent workers.
Tasks ==
    {[id |-> 1, type |-> "PEMetadata", completed_at |-> <<BaseYear, 3, 1, 0, 0, 0>>],
     [id |-> 2, type |-> "PEMetadata", completed_at |-> NULL],
     [id |-> 3, type |-> "Other", completed_at |-> <<BaseYear, 3, 2, 0, 0, 0>>]}

AllRequests ==
    {Req("get_sample", h, <<>>, <<>>, FALSE, 0) : h \in {Rep("f", LenSha1), <<"g">>}}
    \cup {Req("random_sample_by_year", ToStr(y), <<>>, <<>>, TRUE, y) :
            y \in {MinYear - 1, BaseYear, BaseYear + 1}}
    \cup {Req("random_samples", ToStr(1), <<>>, <<>>, TRUE, 1)}
    \cup {Req("random_samples", ToStr(Ceiling + 1), k, <<>>, TRUE, Ceiling + 1) :
            k \in {<<>>, <<"key-A">>, <<"key-B">>}}
    \cup {Req("bulk", <<>>, k, << <<Rep("f", LenSha256)>> >>, FALSE, 0) :
            k \in {<<>>, <<"key-A">>}}
    \cup {Req("get_samples_by_section", h, <<>>, <<>>, FALSE, 0) :
            h \in {Rep("1", LenSha256), <<"1">>}}
    \cup {Req(route, <<>>, <<>>, <<>>, FALSE, 0) :
            route \in {"newest_samples", "stats_count", "build_time_stamps_by_year",
                       "processings_per_month", "stats_count_sample"}}

Init ==
    InitWith(1..NumWorkers,
             {Row(1, YearStart(BaseYear))},
             {"key-A"}, Tasks)

Next ==
    \/ \E w \in Workers : Receive(w, AllRequests)
    \/ \E w \in Workers : get_sample(w)
    \/ \E w \in Workers : newest_samples(w)
    \/ \E w \in Workers : stats_count(w)
    \/ \E w \in Workers : build_time_stamps_by_year(w)
    \/ \E w \in Workers : processings_per_month(w)
    \/ \E w \in Workers : stats_count_sample(w)
    \/ \E w \in Workers : random_sample_by_year(w)
    \/ \E w \in Workers : by_year_offset(w)
    \/ \E w \in Workers : by_year_sample(w)
    \/ \E w \in Workers : random_samples(w)
    \/ \E w \in Workers : get_samples_by_section(w)
    \/ \E w \in Workers : bulk(w)
    \/ \E w \in Workers : Teardown(w)

Spec == Init /\ [][Next]_vars

(****************************** claims ************************************)
Served(w, route) == pc[w] = "teardown" /\ request[w].route = route

AllHex(hash) == \A i \in 1..Len(hash) : hash[i] \in hexdigits

Statements(w, op) == {i \in 1..Len(trace[w]) : trace[w][i].stmt.op = op}

\* C5: get_sample rejects, before any repository lookup, the empty hash as
\* empty, a hash with a non-hexadecimal character as invalid characters
\* whatever its length, and an all-hex hash of a length other than 32, 40
\* and 64 as an unsupported length.
C5_HashRejections ==
    \A w \in Workers :
        Served(w, "get_sample") =>
            LET hash == request[w].arg
                rejected(reason) ==
                    /\ response[w].status = 400
                    /\ response[w].reason = reason
                    /\ trace[w] = <<>>
                    /\ opened[w] = 0
            IN  /\ hash = <<>> => rejected("Hash empty")
                /\ ~AllHex(hash) => rejected("Hash may only contain hex chars")
                /\ (hash # <<>> /\ AllHex(hash) /\ Len(hash) \notin {32, 40, 64}) =>
                      rejected("Hash is not of any of the following lengths: 64, 32, 40")

\* A hash of length 64 holding a non-hexadecimal character was rejected.
C5_Witness ==
    \E w \in Workers :
        /\ Served(w, "get_sample")
        /\ Len(request[w].arg) = 64
        /\ ~AllHex(request[w].arg)
        /\ response[w].reason = "Hash may only contain hex chars"

\* C6: a hex hash of length 64, 32 or 40 causes exactly one lookup, on the
\* SHA-256, MD5 or SHA-1 column respectively; the response is the sample
\* with that hash, or not-found when there is none, so it is determined by
\* the hash and the (unchanged) table.
C6_HashLookup ==
    \A w \in Workers :
        (/\ Served(w, "get_sample")
         /\ AllHex(request[w].arg)
         /\ Len(request[w].arg) \in {32, 40, 64}) =>
            LET hash == request[w].arg
                column == CASE Len(hash) = 64 -> "hash_sha256"
                            [] Len(hash) = 32 -> "hash_md5"
                            [] Len(hash) = 40 -> "hash_sha1"
                hits == {r \in sample : Column(r, column) = hash}
            IN  /\ Len(trace[w]) = 1
                /\ trace[w][1].stmt = [op |-> "by_hash", column |-> column, value |-> hash]
                /\ response[w].status \in {200, 404}
                /\ ~changed[w] =>
                      /\ hits = {} => response[w] = NotFound
                      /\ hits # {} =>
                            /\ response[w].status = 200
                            /\ \E r \in hits : response[w].json = from_sample(r)
                            /\ response[w].json[column] = hash

\* A SHA-1 lookup found its sample.
C6_Witness ==
    \E w \in Workers :
        /\ Served(w, "get_sample")
        /\ Len(request[w].arg) = 40
        /\ response[w].status = 200
        /\ ~changed[w]

ValidYear(w) ==
    /\ request[w].isint
    /\ request[w].n >= 1970
    /\ request[w].n <= 3000

\* C1: a by-year request whose count statement returned 0 ends in the
\* empty-result condition: no fault, and no offset statement at all.
C1_EmptyYearIsEmptyResult ==
    \A w \in Workers :
        (/\ Served(w, "random_sample_by_year")
         /\ ValidYear(w)
         /\ Statements(w, "count_in_range") # {}
         /\ local[w].count = 0) =>
            /\ response[w].status # 500
            /\ Statements(w, "offset_in_range") = {}

\* C2: a by-year request that issued its offset statement never ends in a
\* fault, whatever the pipeline wrote meanwhile.
C2_RaceNeverFaults ==
    \A w \in Workers :
        (/\ Served(w, "random_sample_by_year")
         /\ Statements(w, "offset_in_range") # {}) =>
            response[w].status # 500

\* C7: on a table not written during the request, a by-year request for
\* year y with n >= 1 samples of that year draws an offset in 0..n-1 and
\* returns one of the samples built in year y.
C7_UnchangedDrawInYear ==
    \A w \in Workers :
        (/\ request[w].route = "random_sample_by_year"
         /\ ~changed[w]
         /\ local[w].count >= 1) =>
            LET y == request[w].n
                ofYear == {r \in sample : r.build_timestamp # NULL
                                          /\ r.build_timestamp[1] = y}
            IN  /\ local[w].count = Cardinality(ofYear)
                /\ pc[w] \in {"by_year_sample", "teardown"} =>
                      /\ local[w].rand \in 0..(local[w].count - 1)
                      /\ \E r \in ofYear :
                            local[w].random_sha256 = Column(r, "hash_sha256")
                /\ pc[w] = "teardown" =>
                      /\ response[w].status = 200
                      /\ \E r \in ofYear : response[w].json = from_sample(r)

\* The last offset of a year with several samples was drawn and answered.
C7_Witness ==
    \E w \in Workers :
        /\ Served(w, "random_sample_by_year")
        /\ ~changed[w]
        /\ local[w].count >= 2
        /\ local[w].rand = local[w].count - 1
        /\ response[w].status = 200

\* C8: on a fixed table distinct offsets select distinct rows (the row order
\* is the same for every draw).
C8_DistinctOffsetsDistinctRows ==
    \A w \in Workers :
        (/\ pc[w] = "by_year_sample"
         /\ ~changed[w]
         /\ lastDraw # NoDraw
         /\ lastDraw.offset # local[w].rand) =>
            local[w].random_sha256 # Column(Row(lastDraw.id, NULL), "hash_sha256")

\* C9: the count statement and the offset statement of a by-year request
\* carry the same predicate, year-01-01 inclusive to (year+1)-01-01
\* exclusive, and a request with a year that is no integer or outside
\* 1970..3000 executes no statement.
C9_SamePredicate ==
    \A w \in Workers :
        request[w].route = "random_sample_by_year" =>
            /\ ~ValidYear(w) => trace[w] = <<>>
            /\ \A i \in Statements(w, "count_in_range") \cup Statements(w, "offset_in_range") :
                  LET stmt == trace[w][i].stmt
                      y == request[w].n
                  IN  /\ ValidYear(w)
                      /\ stmt.lo = <<y, 1, 1, 0, 0, 0>> /\ stmt.lo_op = "<="
                      /\ stmt.hi = <<y + 1, 1, 1, 0, 0, 0>> /\ stmt.hi_op = "<"
            /\ pc[w] \in {"by_year_sample", "teardown"} /\ ValidYear(w) =>
                  /\ Cardinality(Statements(w, "count_in_range")) = 1
                  /\ Cardinality(Statements(w, "offset_in_range")) <= 1

\* Both statements of one request were executed.
C9_Witness ==
    \E w \in Workers :
        /\ Served(w, "random_sample_by_year")
        /\ Statements(w, "count_in_range") # {}
        /\ Statements(w, "offset_in_range") # {}
        /\ response[w].status = 200

Authorised(w) ==
    LET header == request[w].api_key
    IN  /\ header # <<>>
        /\ header[1] # ""
        /\ header[1] \in WellFormedKeys
        /\ header[1] \in api_key

\* C3: bulk reaches batch resolution (ids_by_hashes, by_ids) only with a
\* key that is well-formed and registered in the API key repository.
C3_BulkRequiresExistingKey ==
    \A w \in Workers :
        (/\ request[w].route = "bulk"
         /\ Statements(w, "ids_by_hashes") \cup Statements(w, "by_ids") # {}) =>
            Authorised(w)

\* C4: random_samples reaches random_by_id exactly when count is an integer
\* in 1..50, or above 50 with a present, well-formed and registered key;
\* every other request is rejected without sampling, and a count of at most
\* 50 never consults the key repository.
C4_CountGate ==
    \A w \in Workers :
        Served(w, "random_samples") =>
            LET n == request[w].n
                allowed == /\ request[w].isint
                           /\ \/ (1 <= n /\ n <= 50)
                              \/ (n > 50 /\ Authorised(w))
                sampled == Statements(w, "random_by_id") # {}
            IN  /\ sampled => allowed
                /\ allowed => (sampled /\ response[w].status = 200)
                /\ ~allowed => (~sampled /\ response[w].status = 400)
                /\ (request[w].isint /\ n <= 50) =>
                      /\ Statements(w, "exists") = {}
                      /\ g[w].api_key_repository = NoAttr

\* 51 samples were drawn for a registered key.
C4_Witness ==
    \E w \in Workers :
        /\ Served(w, "random_samples")
        /\ request[w].n = 51
        /\ Authorised(w)
        /\ Statements(w, "exists") # {}
        /\ Statements(w, "random_by_id") # {}
        /\ response[w].status = 200

InFlight == {w \in Workers : g[w].db # NoAttr}

\* C10: a request opens at most one connection, lazily; every statement and
\* both repositories of the request use it; no two requests share one; and
\* the open connections are exactly those of the requests in flight, so
\* each is closed at teardown and none stays open.
C10_RequestScopedConnection ==
    /\ \A w \in Workers :
          /\ opened[w] <= 1
          /\ (opened[w] = 1) <=> (g[w].db # NoAttr)
          /\ pc[w] \in {"idle", "dispatch"} => g[w] = EmptyG
          /\ g[w].sample_repository \in {NoAttr, g[w].db}
          /\ g[w].api_key_repository \in {NoAttr, g[w].db}
          /\ \A i \in 1..Len(trace[w]) :
                trace[w][i].conn # NoAttr /\ trace[w][i].conn = g[w].db
    /\ \A w1 \in InFlight, w2 \in InFlight : w1 # w2 => g[w1].db # g[w2].db
    /\ connections = {g[w].db : w \in InFlight}

\* Two requests hold connections at once: one has failed, the other has
\* used its key repository and its sample repository.
C10_Witness ==
    \E w1 \in Workers, w2 \in Workers :
        /\ w1 # w2
        /\ g[w1].db # NoAttr /\ g[w2].db # NoAttr
        /\ response[w1].status = 500
        /\ g[w2].api_key_repository # NoAttr
        /\ g[w2].sample_repository # NoAttr

=============================================================================
